---- MODULE Spec2Model ----
(***************************************************************************)
(* Connection lifecycle of the browser front end (src/src/app.js): the     *)
(* start and stop click handlers, the pagehide / beforeunload handlers,    *)
(* the TURN-credential validation and the ICE-server list handed to the    *)
(* SDK.  The page is single threaded: every action below is one task of    *)
(* the event loop, i.e. the code that runs from an event (a click, an      *)
(* unload event, the settling of an awaited external promise) up to the    *)
(* next await of an external call.                                         *)
(***************************************************************************)
EXTENDS Integers, Sequences, FiniteSets, TLC

\* ------------------------------------------------------------------ bounds
MaxStarts == 2      \* clicks on the start button in one page lifetime
MaxStops == 2       \* clicks on the stop button in one page lifetime
MaxUnloads == 2     \* pagehide / beforeunload events in one page lifetime

StartIds == 1..MaxStarts
StopIds == 1..MaxStops

\* ------------------------------------------------------- JavaScript values
Undefined == [t |-> "undefined", v |-> ""]
JsNull == [t |-> "null", v |-> ""]
Str(s) == [t |-> "string", v |-> s]
Arr(a) == [t |-> "array", v |-> a]
Num(n) == [t |-> "number", v |-> n]
Obj(o) == [t |-> "object", v |-> o]

\* ToBoolean: what `if (x)` and `!x` test
Truthy(x) ==
  CASE x.t = "undefined" -> FALSE
    [] x.t = "null" -> FALSE
    [] x.t = "string" -> x.v # ""
    [] x.t = "number" -> x.v # 0
    [] OTHER -> TRUE

\* property read o.k on an object held as a function from its keys
Prop(o, k) == IF k \in DOMAIN o THEN o[k] ELSE Undefined

EmptyObj == [k \in {} |-> Undefined]

\* ------------------------------------------- responses of /api/webrtc_turn_config
UrlsValues == {Undefined, Str(""), Arr(<<>>), Str("turn:a"), Arr(<<"turn:a", "turn:b">>)}
UsernameValues == {Undefined, Str(""), Str("user")}
CredentialValues == {Undefined, Str(""), Str("cred")}
TtlValues == {Undefined, Num(3600)}

\* a JSON object: only the fields that are present are keys
TurnBody(u, n, c, l) ==
  LET f == [urls |-> u, username |-> n, credential |-> c, ttl |-> l]
  IN [k \in {x \in DOMAIN f : f[x] # Undefined} |-> f[k]]

TurnBodies ==
  {TurnBody(u, n, c, l) : u \in UrlsValues, n \in UsernameValues,
                          c \in CredentialValues, l \in TtlValues}

TurnFailureKinds == {"networkError", "notOk", "notJson", "jsonNull", "jsonPrimitive"}

TurnResponses ==
  {[kind |-> k, body |-> EmptyObj] : k \in TurnFailureKinds}
    \cup {[kind |-> "jsonObject", body |-> b] : b \in TurnBodies}

NoTurnResponse == [kind |-> "none", body |-> EmptyObj]

\* --------------------------------------------------------- getTurnCredentials
Thrown == [threw |-> TRUE, value |-> Undefined]
Returned(x) == [threw |-> FALSE, value |-> x]

\* an entry that keeps every field of the response, urls normalised
IceServerOf_KeepsAll(turnConfig) ==
  [k \in DOMAIN turnConfig |->
     IF k = "urls" /\ turnConfig[k].t # "array" THEN Arr(<<turnConfig[k].v>>)
                                                ELSE turnConfig[k]]

\* the iceServer object literal
IceServerOf(turnConfig) ==
  [urls |-> IF Prop(turnConfig, "urls").t = "array"
            THEN Prop(turnConfig, "urls")
            ELSE Arr(<<Prop(turnConfig, "urls").v>>),
   username |-> Prop(turnConfig, "username"),
   credential |-> Prop(turnConfig, "credential")]

\* the try block without the username / credential check
GetTurnCredentialsTry_NoCredCheck(resp) ==
  IF resp.kind \in {"networkError", "notOk", "notJson", "jsonNull"} THEN Thrown
  ELSE IF ~Truthy(Prop(resp.body, "urls")) THEN Returned(JsNull)
  ELSE Returned(Obj(IceServerOf(resp.body)))

\* the statements inside the try block
GetTurnCredentialsTry(resp) ==
  IF resp.kind = "networkError" THEN Thrown            \* fetch rejects
  ELSE IF resp.kind = "notOk" THEN Thrown              \* throw new Error(...)
  ELSE IF resp.kind = "notJson" THEN Thrown            \* response.json() rejects
  ELSE IF resp.kind = "jsonNull" THEN Thrown           \* TypeError: null.urls
  ELSE LET turnConfig == resp.body IN
    IF ~Truthy(Prop(turnConfig, "urls")) THEN Returned(JsNull)
    ELSE IF ~Truthy(Prop(turnConfig, "username"))
              \/ ~Truthy(Prop(turnConfig, "credential")) THEN Returned(JsNull)
    ELSE Returned(Obj(IceServerOf(turnConfig)))

\* without the catch block the rejection reaches the caller
GetTurnCredentials_NoCatch(resp) == GetTurnCredentialsTry(resp)

\* try { ... } catch (error) { return null; }
GetTurnCredentials(resp) ==
  LET r == GetTurnCredentialsTry(resp)
  IN IF r.threw THEN Returned(JsNull) ELSE r

\* ---------------------------------------------------------- ICE server list
StunServer == [urls |-> Arr(<<"stun:stun.l.google.com:19302">>)]

\* an ICE list with the TURN entry put first
IceServers_TurnFirst(turnServer) ==
  IF Truthy(turnServer) THEN <<turnServer.v, StunServer>> ELSE <<StunServer>>

\* an ICE list that carries a TURN entry kept from before
IceServers_Remembered(turnServer) ==
  <<StunServer, [urls |-> Arr(<<"turn:a">>), username |-> Str("user"),
                 credential |-> Str("cred")]>>

\* iceServers = [STUN]; if (turnServer) iceServers.push(turnServer)
IceServers(turnServer) ==
  IF Truthy(turnServer) THEN <<StunServer, turnServer.v>> ELSE <<StunServer>>

\* ------------------------------------------------------------ thrown values
Err(m) == [kind |-> "message", message |-> m]       \* an Error with a message
NoMessageErr == [kind |-> "noMessage", message |-> ""]  \* a value without .message
NoErr == [kind |-> "none", message |-> ""]              \* nothing was thrown

ApiKeyMessage == "Server configuration error: API key not configured"

\* a catch block that classifies no failure as a configuration fault
IncludesApiKey_Never(m) == FALSE

\* err.message.includes('API key') over the messages of the model
IncludesApiKey(m) == m \in {ApiKeyMessage}

\* loadWorkflowSpec rethrows what fetch, the !response.ok check or
\* response.json() threw: each is an Error object, which has a message
WorkflowErrors == {Err("Failed to load workflow: 404 Not Found")}
CameraErrors == {Err("Permission denied"), NoMessageErr}
NegotiationErrors == {Err(ApiKeyMessage), Err("Negotiation rejected"), NoMessageErr}
RemoteStreamErrors == {Err("Remote stream unavailable"), NoMessageErr}

\* ------------------------------------------------------------- status texts
StatusIdle == <<"Idle", "">>
StatusConnecting == <<"Connecting...", "">>
StatusConnected == <<"Connected - Processing video", "">>
StatusStopping == <<"Stopping...", "">>
StatusError(m) == <<"Error: ", m>>
IsErrorStatus(s) == s[1] = "Error: "

\* -------------------------------------------------------- workflow documents
WorkflowDocs == {Obj("workflowA")}

\* ------------------------------------------------------------------- state
VARIABLES
  activeConnection,   \* let activeConnection: 0 is null, else the session's id
  WORKFLOW_SPEC,      \* let WORKFLOW_SPEC
  startBtnDisabled,   \* startBtn.disabled
  stopBtnDisabled,    \* stopBtn.disabled
  status,             \* statusEl.textContent
  srcObject,          \* videoEl.srcObject: 0 is null, else the session whose stream is bound
  starts,             \* one record per click on the start button: the running
                      \* start() calls, and the outcome of the latest click
  stops,              \* the same for the stop button
  sessions,           \* the connections returned by webrtc.useStream, by start id
  cameras,            \* the streams returned by streams.useCamera, by start id
  turnResponse,       \* the response of /api/webrtc_turn_config waiting to be handled
  unloads,            \* number of pagehide / beforeunload events so far
  workflowFetches,    \* number of fetch('/back_squat_workflow.json') calls so far
  apiKeyConfigured,   \* the backend was started with its secret API key set
  remoteCalled        \* the backend forwarded an offer to the remote service

vars == <<activeConnection, WORKFLOW_SPEC, startBtnDisabled, stopBtnDisabled, status,
          srcObject, starts, stops, sessions, cameras, turnResponse, unloads,
                 workflowFetches, apiKeyConfigured, remoteCalled>>

NewStart == [pc |-> "new", workflowSpec |-> Undefined, turnServer |-> Undefined,
             iceServers |-> <<>>, failedStep |-> "none", err |-> NoErr,
             played |-> FALSE]
NewStop == [pc |-> "new", conn |-> 0, cleanupFailed |-> FALSE]
NoSession == [created |-> FALSE, cleanupCalls |-> 0, stopCleanups |-> 0]

\* the controls and the status text of the page before any script runs
InitialStartDisabled == FALSE
InitialStopDisabled == TRUE
InitialStatus == StatusIdle

Init ==
  /\ activeConnection = 0
  /\ WORKFLOW_SPEC = JsNull
  /\ startBtnDisabled = InitialStartDisabled
  /\ stopBtnDisabled = InitialStopDisabled
  /\ status = InitialStatus
  /\ srcObject = 0
  /\ starts = [i \in StartIds |-> NewStart]
  /\ stops = [j \in StopIds |-> NewStop]
  /\ sessions = [i \in StartIds |-> NoSession]
  /\ cameras = [i \in StartIds |-> "none"]
  /\ turnResponse = NoTurnResponse
  /\ unloads = 0
  /\ workflowFetches = 0
  /\ apiKeyConfigured \in BOOLEAN
  /\ remoteCalled = FALSE

\* ------------------------------------------------------------ derived state
StartInFlightPcs == {"awaitWorkflow", "awaitTurn", "turnSettled", "awaitCamera",
                     "awaitNegotiation",
                     "awaitRemoteStream", "awaitPlay"}
StartInFlight(i) == starts[i].pc \in StartInFlightPcs
StopInFlight(j) == stops[j].pc = "awaitCleanup"

\* the next click is recorded in the first unused record
NextStart(i) == starts[i].pc = "new" /\ \A k \in StartIds : k < i => starts[k].pc # "new"
NextStop(j) == stops[j].pc = "new" /\ \A k \in StopIds : k < j => stops[k].pc # "new"

\* the record of a finished request is kept until the next click on its button
StartFinishedPcs == {"dropped", "noop", "failed", "rejected", "connected"}
StopFinishedPcs == {"dropped", "noop", "done", "rejected"}
ForgetStarts == [k \in StartIds |-> IF starts[k].pc \in StartFinishedPcs
                                    THEN [NewStart EXCEPT !.pc = "gone"]
                                    ELSE starts[k]]
ForgetStops == [k \in StopIds |-> IF stops[k].pc \in StopFinishedPcs
                                  THEN [NewStop EXCEPT !.pc = "gone"]
                                  ELSE stops[k]]

\* connection.cleanup() of the SDK: releases the session and its camera source
CleanupCameras(s) == [cameras EXCEPT ![s] = IF @ = "open" THEN "released" ELSE @]

\* ------------------------------------------------------------------ start
\* startBtn.disabled = true on entry of start()
StartEntryKeepsButton == FALSE
StartEntryLeavesEnabled == FALSE
StartEntryDisabled == TRUE

\* the catch block of start(): err.message.includes(...) throws a TypeError
\* when err carries no message, and start() then rejects with the rest of
\* the block not run.  The locals of start() end with it.
StartCatch(i, step, e) ==
  /\ starts' = [starts EXCEPT ![i] = [NewStart EXCEPT
                    !.pc = IF e.kind = "message" THEN "failed" ELSE "rejected",
                    !.failedStep = step, !.err = e]]
  /\ IF e.kind = "message"
     THEN /\ status' = IF IncludesApiKey(e.message)
                       THEN StatusError("Server API key not configured")
                       ELSE StatusError(e.message)
          /\ startBtnDisabled' = FALSE
          /\ activeConnection' = 0
     ELSE UNCHANGED <<status, startBtnDisabled, activeConnection>>

\* loadWorkflowSpec never fetches again
WorkflowCached_Never(w) == FALSE

\* `if (WORKFLOW_SPEC) return WORKFLOW_SPEC`, and `options.workflowSpec ||`:
\* the cached document is reused when it is truthy
WorkflowCached(w) == Truthy(w)

\* a click on the start button: a disabled button dispatches no click event;
\* otherwise start() runs up to its first pending await
StartClick ==
  \E i \in StartIds :
    /\ NextStart(i)
    /\ IF startBtnDisabled
       THEN /\ starts' = [ForgetStarts EXCEPT ![i].pc = "dropped"]
            /\ UNCHANGED <<startBtnDisabled, status, workflowFetches>>
       ELSE IF activeConnection # 0
       THEN /\ starts' = [ForgetStarts EXCEPT ![i].pc = "noop"]
            /\ UNCHANGED <<startBtnDisabled, status, workflowFetches>>
       ELSE /\ startBtnDisabled' = StartEntryDisabled
            /\ status' = StatusConnecting
            /\ IF WorkflowCached(WORKFLOW_SPEC)
               THEN /\ starts' = [ForgetStarts EXCEPT ![i].pc = "awaitTurn",
                                                      ![i].workflowSpec = WORKFLOW_SPEC]
                    /\ UNCHANGED workflowFetches
               ELSE /\ starts' = [ForgetStarts EXCEPT ![i].pc = "awaitWorkflow"]
                    /\ workflowFetches' = workflowFetches + 1
    /\ UNCHANGED <<activeConnection, WORKFLOW_SPEC, stopBtnDisabled, srcObject, stops,
                   sessions, cameras, turnResponse, unloads, apiKeyConfigured,
                   remoteCalled>>

\* a loadWorkflowSpec whose catch block only logs
LoadWorkflowSwallows == FALSE

\* catch (error) { console.error(...); throw error; } in loadWorkflowSpec
LoadWorkflowRethrows == TRUE

\* fetch('/back_squat_workflow.json') and response.json() settle
WorkflowFetchDone(i) ==
  /\ starts[i].pc = "awaitWorkflow"
  /\ \/ \E e \in WorkflowErrors :
          /\ IF LoadWorkflowRethrows
             THEN StartCatch(i, "workflow", e)
             ELSE /\ starts' = [starts EXCEPT ![i].pc = "awaitTurn"]
                  /\ UNCHANGED <<status, startBtnDisabled, activeConnection>>
          /\ UNCHANGED WORKFLOW_SPEC
     \/ \E w \in WorkflowDocs \cup {JsNull} :
          /\ WORKFLOW_SPEC' = w
          /\ starts' = [starts EXCEPT ![i].pc = "awaitTurn", ![i].workflowSpec = w]
          /\ UNCHANGED <<status, startBtnDisabled, activeConnection>>
  /\ UNCHANGED <<stopBtnDisabled, srcObject, stops, sessions, cameras, turnResponse,
                 unloads,
                 workflowFetches, apiKeyConfigured, remoteCalled>>

\* the network answers fetch('/api/webrtc_turn_config')
TurnResponseArrives(i) ==
  /\ starts[i].pc = "awaitTurn"
  /\ \E resp \in TurnResponses : turnResponse' = resp
  /\ starts' = [starts EXCEPT ![i].pc = "turnSettled"]
  /\ UNCHANGED <<activeConnection, WORKFLOW_SPEC, startBtnDisabled, stopBtnDisabled,
                 status, srcObject, stops, sessions, cameras, unloads,
                 workflowFetches, apiKeyConfigured, remoteCalled>>

\* getTurnCredentials handles the response and returns, the ICE list is built
\* and streams.useCamera is called
TurnFetchDone(i) ==
  /\ starts[i].pc = "turnSettled"
  /\ LET resp == turnResponse
         r == GetTurnCredentials(resp) IN
       /\ turnResponse' = NoTurnResponse
       /\ IF r.threw
          THEN StartCatch(i, "turn", Err("Failed to fetch TURN config"))
          ELSE /\ starts' = [starts EXCEPT ![i].pc = "awaitCamera",
                                           ![i].turnServer = r.value,
                                           ![i].iceServers = IceServers(r.value)]
               /\ UNCHANGED <<status, startBtnDisabled, activeConnection>>
  /\ UNCHANGED <<WORKFLOW_SPEC, stopBtnDisabled, srcObject, stops, sessions, cameras,
                 unloads,
                 workflowFetches, apiKeyConfigured, remoteCalled>>

\* streams.useCamera settles; on success webrtc.useStream is called with the
\* camera stream as its source
CameraDone(i) ==
  /\ starts[i].pc = "awaitCamera"
  /\ \/ \E e \in CameraErrors :
          /\ StartCatch(i, "camera", e)
          /\ UNCHANGED cameras
     \/ /\ cameras' = [cameras EXCEPT ![i] = "open"]
        /\ starts' = [starts EXCEPT ![i].pc = "awaitNegotiation"]
        /\ UNCHANGED <<status, startBtnDisabled, activeConnection>>
  /\ UNCHANGED <<WORKFLOW_SPEC, stopBtnDisabled, srcObject, stops, sessions,
                 turnResponse, unloads,
                 workflowFetches, apiKeyConfigured, remoteCalled>>

\* ------------------------------------------------------------ the backend
\* what the remote inference service does with a forwarded offer
Answer == [kind |-> "answer"]
RemoteOutcomes == {Answer} \cup NegotiationErrors

\* the failure reported by POST /api/init-webrtc of a backend started
\* without its API key
ConfigurationFault == Err(ApiKeyMessage)

\* POST /api/init-webrtc: without the key nothing is forwarded; with it the
\* offer is forwarded and the remote outcome relayed
InitWebrtc(configured, remote) ==
  IF configured THEN [forwarded |-> TRUE, result |-> remote]
                ELSE [forwarded |-> FALSE, result |-> ConfigurationFault]

\* GET /api/health
Health(configured) == [status |-> "ok", apiKeyConfigured |-> configured]

\* webrtc.useStream settles: the connector posted the offer to
\* /api/init-webrtc.  start() keeps no reference to the camera stream, so on
\* failure only the SDK can release it: either outcome is possible
NegotiationDone(i) ==
  /\ starts[i].pc = "awaitNegotiation"
  /\ \E remote \in RemoteOutcomes :
       LET p == InitWebrtc(apiKeyConfigured, remote) IN
       /\ remoteCalled' = (remoteCalled \/ p.forwarded)
       /\ IF p.result = Answer
          THEN /\ sessions' = [sessions EXCEPT ![i].created = TRUE]
               /\ activeConnection' = i
               /\ starts' = [starts EXCEPT ![i].pc = "awaitRemoteStream"]
               /\ UNCHANGED <<status, startBtnDisabled, cameras>>
          ELSE /\ StartCatch(i, "negotiation", p.result)
               /\ \E sdkReleases \in BOOLEAN :
                    cameras' = IF sdkReleases THEN [cameras EXCEPT ![i] = "released"]
                                              ELSE cameras
               /\ UNCHANGED sessions
  /\ UNCHANGED <<WORKFLOW_SPEC, stopBtnDisabled, srcObject, stops, turnResponse, unloads,
                 workflowFetches, apiKeyConfigured>>

\* connection.remoteStream() settles; on success the stream is bound to the
\* video element and videoEl.play() is called
RemoteStreamDone(i) ==
  /\ starts[i].pc = "awaitRemoteStream"
  /\ \/ \E e \in RemoteStreamErrors :
          /\ StartCatch(i, "remoteStream", e)
          /\ UNCHANGED srcObject
     \/ /\ srcObject' = i
        /\ starts' = [starts EXCEPT ![i].pc = "awaitPlay"]
        /\ UNCHANGED <<status, startBtnDisabled, activeConnection>>
  /\ UNCHANGED <<WORKFLOW_SPEC, stopBtnDisabled, stops, sessions, cameras, turnResponse,
                 unloads,
                 workflowFetches, apiKeyConfigured, remoteCalled>>

\* the rejection of videoEl.play()
PlayErrors == {Err("play() failed because the user didn't interact with the document")}

\* a start() in which a rejection of play() reaches the outer catch block
PlayCaught_Not(played) == played

\* try { await videoEl.play() } catch (err) { console.warn(...) }: start()
\* goes on to its last statements whether play() resolved or rejected
PlayCaught(played) == TRUE

\* videoEl.play() settles
PlayDone(i) ==
  /\ starts[i].pc = "awaitPlay"
  /\ \E played \in BOOLEAN :
       IF PlayCaught(played)
       THEN /\ status' = StatusConnected
            /\ stopBtnDisabled' = FALSE
            /\ starts' = [starts EXCEPT ![i].pc = "connected", ![i].played = played]
            /\ UNCHANGED <<activeConnection, startBtnDisabled>>
       ELSE /\ \E e \in PlayErrors : StartCatch(i, "play", e)
            /\ UNCHANGED stopBtnDisabled
  /\ UNCHANGED <<WORKFLOW_SPEC, srcObject, stops, sessions, cameras, turnResponse,
                 unloads, workflowFetches, apiKeyConfigured, remoteCalled>>

\* ------------------------------------------------------------------- stop
\* stopBtn.disabled = true on entry of stop()
StopEntryKeepsButton == FALSE
StopEntryLeavesEnabled == FALSE
StopEntryDisabled == TRUE

\* a stop() whose reset runs only after a cleanup that did not fail
StopAfterCleanup_NoFinally(threw) == [reset |-> ~threw, rethrown |-> threw]

\* try { await cleanup() } catch { log } finally { reset }: what runs after
\* the cleanup call settled, and whether stop() rejects
StopAfterCleanup(threw) == [reset |-> TRUE, rethrown |-> FALSE]

\* one call of connection.cleanup() on session s
CallCleanup(s, fromStop) ==
  /\ sessions' = [sessions EXCEPT ![s].cleanupCalls = @ + 1,
                                  ![s].stopCleanups = IF fromStop THEN @ + 1 ELSE @]
  /\ cameras' = CleanupCameras(s)

\* a click on the stop button: a disabled button dispatches no click event;
\* otherwise stop() runs up to `await activeConnection.cleanup()`
StopClick ==
  \E j \in StopIds :
    /\ NextStop(j)
    /\ IF stopBtnDisabled
       THEN /\ stops' = [ForgetStops EXCEPT ![j].pc = "dropped"]
            /\ UNCHANGED <<stopBtnDisabled, status, sessions, cameras>>
       ELSE IF activeConnection = 0
       THEN /\ stops' = [ForgetStops EXCEPT ![j].pc = "noop"]
            /\ UNCHANGED <<stopBtnDisabled, status, sessions, cameras>>
       ELSE /\ stopBtnDisabled' = StopEntryDisabled
            /\ status' = StatusStopping
            /\ CallCleanup(activeConnection, TRUE)
            /\ stops' = [ForgetStops EXCEPT ![j].pc = "awaitCleanup",
                                             ![j].conn = activeConnection]
    /\ UNCHANGED <<activeConnection, WORKFLOW_SPEC, startBtnDisabled, srcObject, starts,
                   turnResponse, unloads,
                 workflowFetches, apiKeyConfigured, remoteCalled>>

\* the cleanup awaited by stop() settles (threw: it threw or rejected)
CleanupDone(j) ==
  /\ stops[j].pc = "awaitCleanup"
  /\ \E threw \in BOOLEAN :
       LET r == StopAfterCleanup(threw) IN
       /\ stops' = [stops EXCEPT ![j].pc = IF r.rethrown THEN "rejected" ELSE "done",
                                 ![j].cleanupFailed = threw]
       /\ IF r.reset
          THEN /\ activeConnection' = 0
               /\ srcObject' = 0
               /\ startBtnDisabled' = FALSE
               /\ stopBtnDisabled' = TRUE
               /\ status' = StatusIdle
          ELSE UNCHANGED <<activeConnection, srcObject, startBtnDisabled, stopBtnDisabled,
                           status>>
  /\ UNCHANGED <<WORKFLOW_SPEC, starts, sessions, cameras, turnResponse, unloads,
                 workflowFetches, apiKeyConfigured, remoteCalled>>

\* ----------------------------------------------------------------- unload
\* the pagehide listener: if (activeConnection) { activeConnection.cleanup(); }
\* (the page may come back from the back/forward cache)
PageHide ==
  /\ unloads < MaxUnloads
  /\ unloads' = unloads + 1
  /\ IF activeConnection # 0
     THEN CallCleanup(activeConnection, FALSE)
     ELSE UNCHANGED <<sessions, cameras>>
  /\ UNCHANGED <<activeConnection, WORKFLOW_SPEC, startBtnDisabled, stopBtnDisabled,
                 status, srcObject, starts, stops, turnResponse,
                 workflowFetches, apiKeyConfigured, remoteCalled>>

\* the beforeunload listener: the same statement (the navigation may be
\* cancelled, and is otherwise followed by pagehide)
BeforeUnload ==
  /\ unloads < MaxUnloads
  /\ unloads' = unloads + 1
  /\ IF activeConnection = 0
     THEN UNCHANGED <<sessions, cameras>>
     ELSE CallCleanup(activeConnection, FALSE)
  /\ UNCHANGED <<activeConnection, WORKFLOW_SPEC, startBtnDisabled, stopBtnDisabled,
                 status, srcObject, starts, stops, turnResponse,
                 workflowFetches, apiKeyConfigured, remoteCalled>>

\* ------------------------------------------------------------ specification
Next ==
  \/ StartClick
  \/ \E i \in StartIds : WorkflowFetchDone(i)
  \/ \E i \in StartIds : TurnResponseArrives(i)
  \/ \E i \in StartIds : TurnFetchDone(i)
  \/ \E i \in StartIds : CameraDone(i)
  \/ \E i \in StartIds : NegotiationDone(i)
  \/ \E i \in StartIds : RemoteStreamDone(i)
  \/ \E i \in StartIds : PlayDone(i)
  \/ StopClick
  \/ \E j \in StopIds : CleanupDone(j)
  \/ PageHide
  \/ BeforeUnload

Spec == Init /\ [][Next]_vars

\* ------------------------------------------------------ lifecycle states
ManagerConnecting == \E i \in StartIds : StartInFlight(i)
ManagerStopping == \E j \in StopIds : StopInFlight(j)
ManagerIdle == activeConnection = 0 /\ ~ManagerConnecting /\ ~ManagerStopping
ManagerConnected == activeConnection # 0 /\ ~ManagerConnecting /\ ~ManagerStopping

\* sessions returned by webrtc.useStream on which cleanup was never invoked
LiveSessions == {s \in StartIds : sessions[s].created /\ sessions[s].cleanupCalls = 0}

\* a step in which click number i on the start (stop) button is received
StartRequested(i) == starts[i].pc = "new" /\ starts'[i].pc # "new"
StopRequested(j) == stops[j].pc = "new" /\ stops'[j].pc # "new"

\* the running start() calls other than i are not touched
OtherStartsUntouched(i) ==
  \A k \in StartIds \ {i} : StartInFlight(k) => starts'[k] = starts[k]

\* ----------------------------------------------------------------- claims

\* C1: in every reachable state at most one session that was created and not
\* yet released (cleanup never invoked on it) exists.
C1_AtMostOneLiveSession == Cardinality(LiveSessions) <= 1

\* C2: a click on start received while a start is in flight (Connecting) or a
\* session is connected is a no-op: no start() call begins to run, no camera
\* is opened, no session is created and no other state changes.
C2_SecondStartIsNoOp ==
  [][\A i \in StartIds :
       (StartRequested(i) /\ (ManagerConnecting \/ ManagerConnected))
         => /\ starts'[i].pc \in {"dropped", "noop"}
            /\ OtherStartsUntouched(i)
            /\ UNCHANGED <<activeConnection, WORKFLOW_SPEC, startBtnDisabled,
                           stopBtnDisabled, status, srcObject, stops, sessions, cameras,
                           turnResponse, unloads, workflowFetches, apiKeyConfigured,
                           remoteCalled>>]_vars

\* C2 witness: a second click arrived while the first start awaited negotiation
C2_Witness ==
  \E i, k \in StartIds :
    k < i /\ starts[k].pc = "awaitNegotiation" /\ starts[i].pc = "dropped"
       /\ Cardinality({s \in StartIds : cameras[s] # "none"}) = 1

\* C3: when a start whose camera was acquired and whose negotiation failed has
\* returned, the camera stream is released and the manager is Idle.
C3_CameraReleasedAfterNegotiationFailure ==
  \A i \in StartIds :
    (starts[i].pc \in {"failed", "rejected"} /\ starts[i].failedStep = "negotiation")
      => cameras[i] # "open" /\ ManagerIdle

\* C4: a start that failed at any step, with any thrown value, has ended with
\* the session handle null, the start control enabled and an error status
\* shown, and start() itself did not reject.
C4_StartFailureEndsIdle ==
  \A i \in StartIds :
    starts[i].failedStep # "none"
      => /\ starts[i].pc = "failed"
         /\ activeConnection = 0
         /\ ~startBtnDisabled
         /\ IsErrorStatus(status)

\* C5: a session created by a start that fails afterwards is released before
\* the manager is Idle again; whenever the manager is Idle no created session
\* is un-released and no camera is held.
C5_IdleHoldsNothing ==
  /\ \A i \in StartIds :
       (starts[i].pc = "failed" /\ sessions[i].created) => sessions[i].cleanupCalls > 0
  /\ ManagerIdle => (LiveSessions = {} /\ \A c \in StartIds : cameras[c] # "open")

\* C6: when the cleanup awaited by stop throws or rejects, stop still ends in
\* Idle: handle null, sink cleared, start enabled, stop disabled, status
\* "Idle", and stop() does not reject.
C6_StopCompletesDespiteCleanupFailure ==
  [][\A j \in StopIds :
       (StopInFlight(j) /\ stops'[j].pc # stops[j].pc /\ stops'[j].cleanupFailed)
         => /\ stops'[j].pc = "done"
            /\ activeConnection' = 0
            /\ srcObject' = 0
            /\ ~startBtnDisabled'
            /\ stopBtnDisabled'
            /\ status' = StatusIdle]_vars

\* C6 witness: a stop whose cleanup failed has ended, and the manager is Idle
C6_Witness ==
  \E j \in StopIds :
    stops[j].pc = "done" /\ stops[j].cleanupFailed /\ ManagerIdle /\ status = StatusIdle

\* C7: a click on stop while Idle changes nothing, and so does a click on stop
\* while an earlier stop awaits cleanup; stop invokes the cleanup of a session
\* at most once.
C7_StopIdempotent ==
  /\ [](\A s \in StartIds : sessions[s].stopCleanups <= 1)
  /\ [][\A j \in StopIds :
          (StopRequested(j) /\ (ManagerIdle \/ ManagerStopping))
            => /\ stops'[j].pc \in {"dropped", "noop"}
               /\ \A k \in StopIds \ {j} : StopInFlight(k) => stops'[k] = stops[k]
               /\ UNCHANGED <<activeConnection, WORKFLOW_SPEC, startBtnDisabled,
                              stopBtnDisabled, status, srcObject, starts, sessions,
                              cameras, turnResponse, unloads, workflowFetches,
                              apiKeyConfigured, remoteCalled>>]_vars

\* C7 witness: a second click on stop arrived while the first stop, issued
\* from Connected, awaited the one cleanup call it made
C7_Witness ==
  \E j, k \in StopIds :
    /\ j < k /\ stops[j].pc = "awaitCleanup" /\ stops[k].pc = "dropped"
    /\ sessions[stops[j].conn].stopCleanups = 1

\* an ICE-server entry as the claim requires it
WellFormedIceEntry(e) ==
  /\ "urls" \in DOMAIN e /\ e["urls"].t = "array" /\ Len(e["urls"].v) > 0
  /\ ("username" \in DOMAIN e \/ "credential" \in DOMAIN e)
       => /\ "username" \in DOMAIN e /\ e["username"].t = "string" /\ e["username"].v # ""
          /\ "credential" \in DOMAIN e /\ e["credential"].t = "string"
          /\ e["credential"].v # ""
  /\ "ttl" \notin DOMAIN e

\* start() calls whose ICE list has been passed to webrtc.useStream
PassedToUseStream(i) ==
  starts[i].pc \in {"awaitNegotiation", "awaitRemoteStream", "awaitPlay", "connected"}

\* C8: every entry of an ICE-server list passed to webrtc.useStream has a
\* non-empty urls array, non-empty username and credential if it carries
\* credentials, and no ttl field.
C8_IceEntriesWellFormed ==
  \A i \in StartIds :
    PassedToUseStream(i)
      => \A n \in DOMAIN starts[i].iceServers : WellFormedIceEntry(starts[i].iceServers[n])

\* a TURN response that is a transport or parse failure, or lacks a field
TurnUnusable(resp) ==
  \/ resp.kind \in TurnFailureKinds
  \/ \E f \in {"urls", "username", "credential"} : f \notin DOMAIN resp.body

\* C9: getTurnCredentials never rejects; for a failed, non-JSON, null,
\* non-object or incomplete response it resolves to null, and start goes on
\* to the camera step.
C9_TurnFailureResolvesNull ==
  [][\A i \in StartIds :
       (starts[i].pc = "turnSettled" /\ starts'[i].pc # "turnSettled")
         => /\ starts'[i].pc = "awaitCamera"
            /\ starts'[i].failedStep = "none"
            /\ TurnUnusable(turnResponse) => starts'[i].turnServer = JsNull]_vars

\* C9 witness: a start is past the TURN step with a null TURN entry
C9_Witness ==
  \E i \in StartIds : starts[i].pc = "awaitCamera" /\ starts[i].turnServer = JsNull

\* C10: after a failed or malformed TURN response the ICE list is the STUN
\* entry alone and stays so up to Connected; the start leaves the connecting
\* phase only by reaching Connected or by a failure of the camera, negotiation
\* or remote-stream step; and an error status appears only in a step in which
\* a start fails at one of the non-TURN steps.
C10_TurnFailureDegradesToStun ==
  [][/\ \A i \in StartIds :
          /\ (starts[i].pc = "turnSettled" /\ starts'[i].pc # "turnSettled"
                /\ TurnUnusable(turnResponse))
               => /\ starts'[i].pc = "awaitCamera"
                  /\ starts'[i].iceServers = <<StunServer>>
                  /\ status' = status
          /\ (starts[i].pc \in {"awaitCamera", "awaitNegotiation", "awaitRemoteStream",
                                "awaitPlay"}
                /\ starts[i].turnServer = JsNull /\ starts'[i] # starts[i])
               => \/ /\ starts'[i].pc \in {"awaitNegotiation", "awaitRemoteStream",
                                           "awaitPlay", "connected"}
                     /\ starts'[i].iceServers = <<StunServer>>
                     /\ starts[i].iceServers = <<StunServer>>
                     /\ ~IsErrorStatus(status')
                  \/ starts'[i].failedStep \in {"camera", "negotiation", "remoteStream"}
     /\ (IsErrorStatus(status') /\ status' # status)
          => \E i \in StartIds :
               /\ starts[i].failedStep = "none"
               /\ starts'[i].failedStep \in {"workflow", "camera", "negotiation",
                                             "remoteStream"}]_vars

\* C10 witness: a start whose TURN entry is null is Connected with the STUN
\* entry as its whole ICE list
C10_Witness ==
  \E i \in StartIds :
    /\ starts[i].pc = "connected" /\ starts[i].turnServer = JsNull
    /\ starts[i].iceServers = <<StunServer>>
    /\ status = StatusConnected /\ activeConnection = i

\* start() calls that hold the workflow document they use
HasWorkflowSpec(i) ==
  starts[i].pc \in {"awaitTurn", "turnSettled", "awaitCamera", "awaitNegotiation",
                    "awaitRemoteStream", "awaitPlay", "connected"}

\* C11 (as stated): across any sequence of starts and stops, failed workflow
\* loads included, the workflow document is fetched at most once, and every
\* start uses the one value that was loaded.
C11_FetchedAtMostOnce ==
  /\ workflowFetches <= 1
  /\ \A i \in StartIds : HasWorkflowSpec(i) => starts[i].workflowSpec = WORKFLOW_SPEC

\* C11: the workflow document is fetched only by a start that finds no truthy
\* cached value (nothing loaded yet, the last load failed, or the loaded JSON
\* value was falsy); once a truthy value is cached it is never fetched again,
\* the cached value never changes, and every later start uses it unchanged.
C11_TruthyDocumentFetchedOnce ==
  [][/\ workflowFetches' # workflowFetches
          => ~Truthy(WORKFLOW_SPEC) /\ workflowFetches' = workflowFetches + 1
     /\ Truthy(WORKFLOW_SPEC) => WORKFLOW_SPEC' = WORKFLOW_SPEC
     /\ \A i \in StartIds :
          /\ (Truthy(WORKFLOW_SPEC) /\ StartRequested(i)
                /\ starts'[i].pc \notin {"dropped", "noop"})
               => starts'[i].pc = "awaitTurn" /\ starts'[i].workflowSpec = WORKFLOW_SPEC
          /\ (HasWorkflowSpec(i) /\ starts'[i].pc \in StartInFlightPcs \cup {"connected"})
               => starts'[i].workflowSpec = starts[i].workflowSpec]_vars

\* C11 witness: a start after the one that loaded the document runs on the
\* cached value, and the document was fetched once
C11_Witness ==
  \E i, k \in StartIds :
    /\ k < i /\ starts[k].pc = "gone" /\ starts[i].pc = "awaitTurn"
    /\ workflowFetches = 1 /\ Truthy(WORKFLOW_SPEC)
    /\ starts[i].workflowSpec = WORKFLOW_SPEC

\* the manager is Connected and shows it
ShownConnected == ManagerConnected /\ status = StatusConnected

\* a step in which a pagehide or beforeunload event is handled
UnloadHandled == unloads' # unloads

\* a step in which cleanup is invoked on session s
CleanupInvoked(s) == sessions'[s].cleanupCalls > sessions[s].cleanupCalls

\* C12: an unload event handled while Connected releases the session and
\* takes the manager to Idle: after the handler the session is released and
\* no session handle is stored (so no later stop or unload can act on it).
C12_UnloadEndsIdle ==
  [][(UnloadHandled /\ ShownConnected)
       => /\ sessions'[activeConnection].cleanupCalls > 0
          /\ activeConnection' = 0
          /\ ManagerIdle']_vars

\* C14: cleanup is invoked only while Connected: no stop click and no
\* pagehide or beforeunload event invokes it while Idle, while Connecting
\* (the handle stored or not) or while Stopping.
C14_CleanupOnlyWhileConnected ==
  [][\A s \in StartIds : CleanupInvoked(s) => ShownConnected]_vars

\* C13: a click on stop received while a start is in flight has no effect:
\* no stop() call begins to run, cleanup is not invoked, no state changes, and
\* the start in flight goes on untouched to its own success or failure.
C13_StopDuringStartIsNoOp ==
  [][\A j \in StopIds :
       (StopRequested(j) /\ ManagerConnecting)
         => /\ stops'[j].pc \in {"dropped", "noop"}
            /\ \A s \in StartIds : ~CleanupInvoked(s)
            /\ UNCHANGED <<activeConnection, WORKFLOW_SPEC, startBtnDisabled,
                           stopBtnDisabled, status, srcObject, starts, sessions,
                           cameras, turnResponse, unloads, workflowFetches,
                           apiKeyConfigured, remoteCalled>>]_vars

\* C13 witness: a stop click was dropped and a start is in flight with its
\* session handle already stored and not released
C13_Witness ==
  \E j \in StopIds, i \in StartIds :
    /\ stops[j].pc = "dropped" /\ starts[i].pc = "awaitRemoteStream"
    /\ activeConnection = i /\ sessions[i].cleanupCalls = 0

\* the status shown for a failure classified as a configuration fault
StatusConfigurationFault == StatusError("Server API key not configured")

\* a step in which the negotiation awaited by start i settles
NegotiationSettles(i) ==
  starts[i].pc = "awaitNegotiation" /\ starts'[i].pc # "awaitNegotiation"

\* C15: with no API key configured, /api/health reports apiKeyConfigured
\* false; every /api/init-webrtc call fails with the configuration fault and
\* the remote service is never called; and the start that receives the
\* failure shows the configuration-specific status and ends Idle (no handle
\* stored, no start in flight, start enabled, stop disabled).
C15_NoKeyIsConfigurationFault ==
  [][~apiKeyConfigured
       => /\ ~Health(apiKeyConfigured').apiKeyConfigured
          /\ ~remoteCalled'
          /\ \A s \in StartIds : ~sessions'[s].created
          /\ \A i \in StartIds :
               NegotiationSettles(i)
                 => /\ starts'[i].pc = "failed"
                    /\ starts'[i].failedStep = "negotiation"
                    /\ status' = StatusConfigurationFault
                    /\ ManagerIdle'
                    /\ ~startBtnDisabled' /\ stopBtnDisabled']_vars

\* C15 witness: without the key a start failed at negotiation, the
\* configuration status is shown and the manager is Idle
C15_Witness ==
  \E i \in StartIds :
    /\ ~apiKeyConfigured /\ ~remoteCalled
    /\ starts[i].pc = "failed" /\ starts[i].failedStep = "negotiation"
    /\ status = StatusConfigurationFault
    /\ ManagerIdle /\ ~startBtnDisabled

\* the lifecycle state a status text shows
StatusKind(s) ==
  IF s = StatusIdle THEN "Idle"
  ELSE IF s = StatusConnecting THEN "Connecting"
  ELSE IF s = StatusConnected THEN "Connected"
  ELSE IF s = StatusStopping THEN "Stopping"
  ELSE "IdleWithError"

AllowedStatusChanges ==
  {<<"Idle", "Connecting">>, <<"IdleWithError", "Connecting">>,
   <<"Connecting", "Connected">>, <<"Connecting", "IdleWithError">>,
   <<"Connected", "Stopping">>, <<"Stopping", "Idle">>}

\* C17: the status changes only along Idle -> Connecting, Connecting ->
\* Connected, Connecting -> Idle with an error shown, Connected -> Stopping
\* and Stopping -> Idle; so Connected is never shown after Stopping or Idle
\* without a new Connecting in between.
C17_StatusFollowsLifecycle ==
  [][status' # status
       => <<StatusKind(status), StatusKind(status')>> \in AllowedStatusChanges]_vars

\* C17 witness: after a stop that completed, a new start is shown Connected
C17_Witness ==
  \E i \in StartIds, j \in StopIds :
    /\ stops[j].pc = "done" /\ starts[i].pc = "connected"
    /\ status = StatusConnected /\ activeConnection = i

\* C18: the ICE list passed to webrtc.useStream has the fixed STUN entry as
\* its first element and one or two elements; the second element is present
\* exactly when getTurnCredentials returned a non-null entry, and is that
\* entry.
C18_StunFirstThenTurn ==
  \A i \in StartIds :
    PassedToUseStream(i)
      => LET ice == starts[i].iceServers IN
         /\ Len(ice) \in {1, 2}
         /\ ice[1] = StunServer
         /\ StunServer.urls = Arr(<<"stun:stun.l.google.com:19302">>)
         /\ (Len(ice) = 2) <=> (starts[i].turnServer # JsNull)
         /\ Len(ice) = 2 => ice[2] = starts[i].turnServer.v

\* C18 witness: a list of two entries, STUN then TURN, was passed to
\* webrtc.useStream
C18_Witness ==
  \E i \in StartIds :
    /\ starts[i].pc = "awaitNegotiation" /\ Len(starts[i].iceServers) = 2
    /\ starts[i].iceServers[1] = StunServer
    /\ starts[i].turnServer # JsNull

\* a urls value that is a non-empty string or a non-empty array
NonEmptyUrls(u) ==
  \/ u.t = "string" /\ u.v # ""
  \/ u.t = "array" /\ Len(u.v) > 0

NonEmptyString(x) == x.t = "string" /\ x.v # ""

\* a TURN response that carries non-empty urls, username and credential
CompleteTurnResponse(resp) ==
  /\ resp.kind = "jsonObject"
  /\ {"urls", "username", "credential"} \subseteq DOMAIN resp.body
  /\ NonEmptyUrls(resp.body.urls)
  /\ NonEmptyString(resp.body.username)
  /\ NonEmptyString(resp.body.credential)

\* C19: for a TURN response with non-empty urls, username and credential,
\* getTurnCredentials returns an entry with exactly the fields urls, username
\* and credential: urls is [u] when the response gave a string u and the
\* array itself when it gave an array, username and credential are those of
\* the response, and no other field of the response (ttl) is carried over.
C19_TurnEntryNormalised ==
  [][\A i \in StartIds :
       (starts[i].pc = "turnSettled" /\ starts'[i].pc # "turnSettled"
          /\ CompleteTurnResponse(turnResponse))
         => LET body == turnResponse.body
                e == starts'[i].turnServer IN
            /\ starts'[i].pc = "awaitCamera"
            /\ e.t = "object"
            /\ DOMAIN e.v = {"urls", "username", "credential"}
            /\ e.v.urls = IF body.urls.t = "string" THEN Arr(<<body.urls.v>>)
                                                    ELSE body.urls
            /\ e.v.username = body.username
            /\ e.v.credential = body.credential]_vars

\* C19 witness: a response whose urls was the string "turn:a" gave the entry
\* with urls ["turn:a"] and the credentials of the response
C19_Witness ==
  \E i \in StartIds :
    /\ starts[i].pc = "awaitCamera"
    /\ starts[i].turnServer = Obj([urls |-> Arr(<<"turn:a">>), username |-> Str("user"),
                                   credential |-> Str("cred")])

\* C20: when negotiation and remoteStream succeeded and videoEl.play()
\* rejects, the start still ends Connected: the handle stays stored, the sink
\* stays bound to the session's stream, the Connected status is shown, stop
\* is enabled, and cleanup is not invoked.
C20_PlayRejectionStillConnected ==
  [][\A i \in StartIds :
       (starts[i].pc = "awaitPlay" /\ starts'[i].pc # "awaitPlay" /\ ~starts'[i].played)
         => /\ starts'[i].pc = "connected"
            /\ activeConnection = i /\ activeConnection' = i
            /\ srcObject = i /\ srcObject' = i
            /\ status' = StatusConnected
            /\ ~stopBtnDisabled'
            /\ \A s \in StartIds : ~CleanupInvoked(s)]_vars

\* C20 witness: a start whose play() rejected is Connected
C20_Witness ==
  \E i \in StartIds :
    /\ starts[i].pc = "connected" /\ ~starts[i].played
    /\ activeConnection = i /\ srcObject = i /\ sessions[i].cleanupCalls = 0
    /\ status = StatusConnected /\ ~stopBtnDisabled

\* a step in which start i fails
StartFails(i) == starts[i].failedStep = "none" /\ starts'[i].failedStep # "none"

\* C21: a start failure whose message contains "API key" shows the status
\* "Error: Server API key not configured"; every other start failure shows
\* "Error: <message>" with that failure's own message.
C21_ErrorStatusClassified ==
  [][\A i \in StartIds :
       StartFails(i)
         => LET e == starts'[i].err IN
            /\ IsErrorStatus(status')
            /\ status' = IF e.message = ApiKeyMessage THEN StatusConfigurationFault
                                                       ELSE StatusError(e.message)]_vars

\* the order of the steps of one start(): the changes of its position
StartStepOrder ==
  {<<"new", "dropped">>, <<"new", "noop">>, <<"new", "awaitWorkflow">>,
   <<"new", "awaitTurn">>,
   <<"awaitWorkflow", "awaitTurn">>, <<"awaitWorkflow", "failed">>,
   <<"awaitWorkflow", "rejected">>,
   <<"awaitTurn", "turnSettled">>, <<"turnSettled", "awaitCamera">>,
   <<"awaitCamera", "awaitNegotiation">>, <<"awaitCamera", "failed">>,
   <<"awaitCamera", "rejected">>,
   <<"awaitNegotiation", "awaitRemoteStream">>, <<"awaitNegotiation", "failed">>,
   <<"awaitNegotiation", "rejected">>,
   <<"awaitRemoteStream", "awaitPlay">>, <<"awaitRemoteStream", "failed">>,
   <<"awaitRemoteStream", "rejected">>,
   <<"awaitPlay", "connected">>}
    \cup {<<f, "gone">> : f \in StartFinishedPcs}

\* C22: within one start the steps come in the order workflow resolution,
\* TURN fetch, ICE list, camera, negotiation: the TURN fetch is issued with
\* the workflow document resolved, the camera is opened only with the
\* workflow document, the TURN result and the ICE list in hand, the
\* negotiation begins after the camera step and settles only with the camera
\* open, and a start whose workflow load failed fetches no TURN config, opens
\* no camera and creates no session.
C22_StepsInOrder ==
  [][\A i \in StartIds :
       /\ starts'[i].pc # starts[i].pc
            => <<starts[i].pc, starts'[i].pc>> \in StartStepOrder
       /\ (starts'[i].pc = "awaitTurn" /\ starts[i].pc # "awaitTurn")
            => starts'[i].workflowSpec # Undefined /\ turnResponse' = NoTurnResponse
       /\ (cameras[i] = "none" /\ cameras'[i] # "none")
            => /\ starts[i].pc = "awaitCamera"
               /\ starts[i].workflowSpec # Undefined
               /\ starts[i].turnServer # Undefined
               /\ Len(starts[i].iceServers) >= 1
       /\ (NegotiationSettles(i) \/ (sessions'[i].created /\ ~sessions[i].created))
            => starts[i].pc = "awaitNegotiation" /\ cameras[i] = "open"
       /\ starts'[i].failedStep = "workflow"
            => /\ starts[i].pc \in {"awaitWorkflow", "failed", "rejected"}
               /\ cameras'[i] = "none" /\ ~sessions'[i].created
               /\ turnResponse' = NoTurnResponse]_vars

\* C22 witness: a start went through every step up to a settled negotiation
C22_Witness ==
  \E i \in StartIds :
    /\ starts[i].pc = "awaitRemoteStream" /\ sessions[i].created
    /\ cameras[i] = "open"
    /\ Truthy(starts[i].workflowSpec) /\ starts[i].turnServer # Undefined
    /\ Len(starts[i].iceServers) = 2

\* C23: whenever the manager is Idle (no session handle stored and no start
\* or stop in flight) the media sink is empty and the start control is
\* enabled.
C23_IdleSinkEmptyStartEnabled ==
  ManagerIdle => srcObject = 0 /\ ~startBtnDisabled

\* C24: whenever the Connected status is shown, a session handle is stored,
\* that session has not been released, and the media sink is bound to that
\* session's remote stream.
C24_ConnectedStatusMeansLiveSession ==
  status = StatusConnected
    => /\ activeConnection # 0
       /\ sessions[activeConnection].created
       /\ sessions[activeConnection].cleanupCalls = 0
       /\ srcObject = activeConnection

\* no start and no stop is in flight
NothingInFlight == ~ManagerConnecting /\ ~ManagerStopping

\* C25: the start and stop controls are never both enabled, and whenever
\* nothing is in flight exactly one of them is enabled: start when no session
\* handle is stored, stop when one is.
C25_ExactlyOneControl ==
  /\ startBtnDisabled \/ stopBtnDisabled
  /\ NothingInFlight
       => IF activeConnection = 0 THEN ~startBtnDisabled /\ stopBtnDisabled
                                  ELSE startBtnDisabled /\ ~stopBtnDisabled

\* C26: over the lifetime of each session cleanup is invoked at most once,
\* counting the calls of stop, of the pagehide listener and of the
\* beforeunload listener together.
C26_CleanupAtMostOnce ==
  \A s \in StartIds : sessions[s].cleanupCalls <= 1

\* every awaited external call eventually resolves or rejects: the workflow
\* fetch, the TURN fetch, the camera, the negotiation, the remote stream,
\* play() and cleanup.  Clicks and unload events are under no obligation.
AwaitedCallsSettle ==
  /\ \A i \in StartIds :
       /\ WF_vars(WorkflowFetchDone(i))
       /\ WF_vars(TurnResponseArrives(i))
       /\ WF_vars(TurnFetchDone(i))
       /\ WF_vars(CameraDone(i))
       /\ WF_vars(NegotiationDone(i))
       /\ WF_vars(RemoteStreamDone(i))
       /\ WF_vars(PlayDone(i))
  /\ \A j \in StopIds : WF_vars(CleanupDone(j))

FairSpec == Spec /\ AwaitedCallsSettle

\* start i has ended Connected, or in Idle with the start control enabled
StartEnded(i) ==
  \/ starts[i].pc = "connected" /\ status = StatusConnected
  \/ starts[i].pc = "failed" /\ ManagerIdle /\ ~startBtnDisabled

\* stop j has ended in Idle
StopEnded(j) == stops[j].pc = "done" /\ ManagerIdle /\ status = StatusIdle

\* C27: if every awaited external call eventually settles, every start
\* eventually ends Connected or in Idle with the start control enabled, every
\* stop eventually ends in Idle, and a start requested in Idle is accepted.
C27_StartsAndStopsTerminate ==
  /\ \A i \in StartIds : StartInFlight(i) ~> StartEnded(i)
  /\ \A j \in StopIds : StopInFlight(j) ~> StopEnded(j)
  /\ [][\A i \in StartIds :
          (StartRequested(i) /\ ManagerIdle)
            => starts'[i].pc \in {"awaitWorkflow", "awaitTurn"}]_vars

\* the ICE list that one response of /api/webrtc_turn_config gives rise to
OwnIceList(resp) ==
  IF /\ resp.kind = "jsonObject"
     /\ Truthy(Prop(resp.body, "urls"))
     /\ Truthy(Prop(resp.body, "username"))
     /\ Truthy(Prop(resp.body, "credential"))
  THEN <<StunServer,
         [urls |-> IF resp.body.urls.t = "array" THEN resp.body.urls
                                                 ELSE Arr(<<resp.body.urls.v>>),
          username |-> resp.body.username,
          credential |-> resp.body.credential]>>
  ELSE <<StunServer>>

\* start() calls that hold their ICE list
HasIceList(i) ==
  starts[i].pc \in {"awaitCamera", "awaitNegotiation", "awaitRemoteStream", "awaitPlay",
                    "connected"}

\* C28: TURN credentials are never reused across sessions: a start that is
\* past workflow resolution goes through exactly one TURN-config fetch of
\* its own before the camera step, its ICE list is the one its own response
\* gives (the STUN entry alone for an unusable response), the response is
\* kept for no later start, and the list stays as built up to Connected.
C28_TurnEntryFromOwnFetch ==
  [][\A i \in StartIds :
       /\ (starts[i].pc = "awaitTurn" /\ starts'[i].pc # "awaitTurn")
            => /\ starts'[i].pc = "turnSettled"
               /\ turnResponse = NoTurnResponse
               /\ turnResponse' \in TurnResponses
       /\ (starts'[i].pc = "turnSettled" /\ starts[i].pc # "turnSettled")
            => starts[i].pc = "awaitTurn"
       /\ (starts[i].pc = "turnSettled" /\ starts'[i].pc # "turnSettled")
            => /\ starts'[i].pc = "awaitCamera"
               /\ starts'[i].iceServers = OwnIceList(turnResponse)
               /\ turnResponse' = NoTurnResponse
       /\ (starts'[i].pc = "awaitCamera" /\ starts[i].pc # "awaitCamera")
            => starts[i].pc = "turnSettled"
       /\ (HasIceList(i) /\ starts'[i].pc \in StartInFlightPcs \cup {"connected"})
            => starts'[i].iceServers = starts[i].iceServers
       /\ ~HasIceList(i) => starts[i].iceServers = <<>>]_vars

\* C28 witness: a start after an earlier one passed its ICE list, with a
\* TURN entry, to webrtc.useStream
C28_Witness ==
  \E i, k \in StartIds :
    /\ k < i /\ starts[k].pc = "gone"
    /\ starts[i].pc = "awaitNegotiation" /\ Len(starts[i].iceServers) = 2
    /\ turnResponse = NoTurnResponse

====
